---- MODULE Spec2Model ----
(***************************************************************************)
(* Model of two subsystems of the hornet node:                             *)
(*   - the gossip Service event loop (pkg/protocol/gossip/service.go)      *)
(*   - the pruning engine (plugins/snapshot/pruning.go)                    *)
(* The gossip part is checked under Spec, the pruning part under           *)
(* PruneSpec.                                                              *)
(***************************************************************************)
EXTENDS Integers, Sequences, FiniteSets, TLC

(***************************************************************************)
(* Bounds of the gossip model.                                             *)
(***************************************************************************)
\* streams ever created (inbound by the remote, outbound by openStream)
MaxStreams == 2

\* peers the p2p manager has a record of
ManagedPeers == {"p1"}
\* a peer the manager does not know (manager.Call never runs its closure)
StrangerPeers == {"p2"}
Peers == ManagedPeers \cup StrangerPeers

PeerRelationUnknown == "unknown"
PeerRelations == {PeerRelationUnknown, "known", "autopeered"}

StreamCancelReasonDuplicated == "duplicated stream"
StreamCancelReasonInsufficientPeerRelation == "insufficient peer relation"

DirInbound == "inbound"
DirOutbound == "outbound"

\* the nil *Protocol; protocol instances are numbered from 1
NoProto == 0
\* the absent stream of a message that carries none
NoStream == 0

VARIABLES
    streams,         \* Service.streams: peer.ID -> *Protocol (NoProto: no entry)
    protos,          \* every Protocol made by NewProtocol: <<[PeerID, Stream]>>
    net,             \* every stream of the transport: <<[peer, dir, reset, connClosed]>>
    relation,        \* p2p.Peer.Relation of each managed peer
    relationUpdatedChan, \* the message the manager is blocked sending, if any
    shutdownSignal,  \* TRUE once the shutdown signal is closed
    running,         \* TRUE while eventLoop has not returned
    startedCnt,      \* ProtocolStarted triggers per protocol instance
    terminatedCnt,   \* ProtocolTerminated triggers per protocol instance
    createdBy,       \* the loop case that registered each protocol instance
    last,            \* what the last loop iteration handled and triggered
    blockedCallers,  \* the callers blocked in a send that found no receiver
    offers,          \* the events producers have offered on a channel of the loop,
                     \* oldest first: <<[chan, peer, handled]>>
    loopBlocked      \* the method of the Service a callback running in the loop's
                     \* goroutine is blocked in ("": the loop is not in such a call)

VARIABLES
    snapshotInfo,     \* the persisted SnapshotInfo (NoSnapshotInfo: none stored)
    solidEntryPoints, \* the stored solid entry points: {<<messageID, index>>}
    messages,         \* IDs of the stored messages (with their metadata)
    children,         \* the children index: {<<parentID, childID>>}
    unconfirmed,      \* the unconfirmed index: {<<milestoneIndex, messageID>>}
    milestones,       \* indexes of the stored milestones
    ledgerDiffs,      \* indexes of the stored ledger diffs
    isPruning,        \* the process-wide isPruning flag
    abortSignal,      \* TRUE once the abort signal of the process is closed
    pc,               \* where the pruneDatabase call stands ("idle": no call)
    targetIndex,      \* pruneDatabase: targetIndex (after clamping)
    milestoneIndex,   \* pruneDatabase: the loop variable
    call,             \* the current or last call: its argument, the SnapshotInfo
                      \* it found, its result, the milestones it iterated and
                      \* skipped, those not found or whose traversal failed,
                      \* those whose ledger diff it failed to delete,
                      \* the cone its last completed iteration collected
    prevCall,         \* the last call before it that got past the guards
    pruningEvents,    \* PruningMilestoneIndexChanged triggers of the call
    gcRequested,      \* database.RunGarbageCollection() ran in the call
    handleTrace       \* the cache handles the last step acquired and released, in order

pruneVars == <<snapshotInfo, solidEntryPoints, messages, children, unconfirmed,
               milestones, ledgerDiffs, isPruning, abortSignal, pc, targetIndex,
               milestoneIndex, call, prevCall, pruningEvents, gcRequested, handleTrace>>

gossipVars == <<streams, protos, net, relation, relationUpdatedChan, shutdownSignal,
                running, startedCnt, terminatedCnt, createdBy, last, blockedCallers,
                offers, loopBlocked>>

(***************************************************************************)
(* The part of the state the handlers of the Service read and write.       *)
(***************************************************************************)
ServiceState == [streams |-> streams, protos |-> protos, net |-> net]

Msg(chan, peerID, stream, dir, oldRel) ==
    [chan |-> chan, peer |-> peerID, stream |-> stream, dir |-> dir, oldRelation |-> oldRel]

EvProtocolStarted(proto) == [type |-> "ProtocolStarted", proto |-> proto, stream |-> NoStream, info |-> ""]
EvProtocolTerminated(proto) == [type |-> "ProtocolTerminated", proto |-> proto, stream |-> NoStream, info |-> ""]
EvInboundStreamCancelled(stream, reason) ==
    [type |-> "InboundStreamCancelled", proto |-> NoProto, stream |-> stream, info |-> reason]
EvError(what) == [type |-> "Error", proto |-> NoProto, stream |-> NoStream, info |-> what]

\* a handler's outcome: the new service state, the returned protocol, the
\* returned error ("" is nil) and the events triggered inside the handler
Outcome(S, proto, err, events) == [S |-> S, proto |-> proto, err |-> err, events |-> events]

\* closeUnwantedStream resetting the stream only, the connection left open
closeUnwantedStreamResetOnly(S, stream) ==
    [S EXCEPT !.net[stream].reset = TRUE]

\* closes the given unwanted stream: the underlying connection and the stream
closeUnwantedStream(S, stream) ==
    [S EXCEPT !.net[stream].connClosed = TRUE, !.net[stream].reset = TRUE]

\* registers a protocol instance for the given peer and stream
registerProtocol(S, peerID, stream) ==
    LET proto == Len(S.protos) + 1 IN
    [S EXCEPT !.protos = Append(@, [PeerID |-> peerID, Stream |-> stream]),
              !.streams[peerID] = proto]

\* manager.Call(remotePeerID, func): ok only for a managed peer whose
\* relation is not unknown
RelationAllows(peerID) ==
    peerID \in ManagedPeers /\ relation[peerID] # PeerRelationUnknown

handleInboundStream(S, stream) ==
    LET remotePeerID == S.net[stream].peer IN
    IF S.streams[remotePeerID] # NoProto
    THEN Outcome(closeUnwantedStream(S, stream), NoProto, "",
                 <<EvInboundStreamCancelled(stream, StreamCancelReasonDuplicated)>>)
    ELSE IF ~RelationAllows(remotePeerID)
    THEN Outcome(closeUnwantedStream(S, stream), NoProto, "",
                 <<EvInboundStreamCancelled(stream, StreamCancelReasonInsufficientPeerRelation)>>)
    ELSE LET S2 == registerProtocol(S, remotePeerID, stream) IN
         Outcome(S2, S2.streams[remotePeerID], "", <<>>)

\* opens up a stream to the given peer; openOk is the result of host.NewStream
openStream(S, peerID, openOk) ==
    IF ~openOk
    THEN [S |-> S, stream |-> NoStream, err |-> "unable to create gossip stream"]
    ELSE [S |-> [S EXCEPT !.net = Append(@, [peer |-> peerID, dir |-> DirOutbound,
                                              reset |-> FALSE, connClosed |-> FALSE])],
          stream |-> Len(S.net) + 1, err |-> ""]

handleConnected(S, peerID, dir, openOk) ==
    IF S.streams[peerID] # NoProto
    THEN Outcome(S, NoProto, "", <<>>)
    ELSE IF dir # DirOutbound
    THEN Outcome(S, NoProto, "", <<>>)
    ELSE LET o == openStream(S, peerID, openOk) IN
         IF o.err # ""
         THEN Outcome(S, NoProto, o.err, <<>>)
         ELSE LET S2 == registerProtocol(o.S, peerID, o.stream) IN
              Outcome(S2, S2.streams[peerID], "", <<>>)

\* deregisterProtocol resetting first and keeping the entry when that fails
deregisterProtocolKeepOnError(S, peerID, resetOk) ==
    IF S.streams[peerID] = NoProto
    THEN [S |-> S, reset |-> FALSE, err |-> ""]
    ELSE LET proto == S.streams[peerID]
             S1 == [S EXCEPT !.net[S.protos[proto].Stream].reset = TRUE]
         IN IF ~resetOk
            THEN [S |-> S1, reset |-> TRUE, err |-> "unable to cleanly reset stream"]
            ELSE [S |-> [S1 EXCEPT !.streams[peerID] = NoProto], reset |-> TRUE, err |-> ""]

\* deregisters the ongoing protocol of the peer and resets its stream;
\* resetOk is the result of proto.Stream.Reset()
deregisterProtocol(S, peerID, resetOk) ==
    IF S.streams[peerID] = NoProto
    THEN [S |-> S, reset |-> FALSE, err |-> ""]
    ELSE LET proto == S.streams[peerID]
             S2 == [S EXCEPT !.streams[peerID] = NoProto,
                             !.net[S.protos[proto].Stream].reset = TRUE]
         IN [S |-> S2, reset |-> TRUE,
             err |-> IF resetOk THEN "" ELSE "unable to cleanly reset stream"]

\* closes the stream for the given peer and fires the appropriate events
closeStream(S, peerID, resetOk) ==
    LET proto == S.streams[peerID]
        d == deregisterProtocol(S, peerID, resetOk)
    IN IF d.err # ""
       THEN Outcome(d.S, NoProto, "", <<EvError(d.err)>>)
       ELSE IF d.reset
       THEN Outcome(d.S, NoProto, "", <<EvProtocolTerminated(proto)>>)
       ELSE Outcome(d.S, NoProto, "", <<>>)

\* handleRelationUpdated without the check for an ongoing protocol
handleRelationUpdatedNoOngoingCheck(S, peerID, oldRel, openOk, resetOk) ==
    LET newRel == relation[peerID] IN
    IF newRel = PeerRelationUnknown
    THEN LET d == deregisterProtocol(S, peerID, resetOk) IN
         Outcome(d.S, NoProto, d.err, <<>>)
    ELSE LET o == openStream(S, peerID, openOk) IN
         IF o.err # ""
         THEN Outcome(S, NoProto, o.err, <<>>)
         ELSE LET S2 == registerProtocol(o.S, peerID, o.stream) IN
              Outcome(S2, S2.streams[peerID], "", <<>>)

\* handles updates to the relation to a given peer
handleRelationUpdated(S, peerID, oldRel, openOk, resetOk) ==
    LET newRel == relation[peerID] IN
    IF newRel = PeerRelationUnknown
    THEN LET d == deregisterProtocol(S, peerID, resetOk) IN
         Outcome(d.S, NoProto, d.err, <<>>)
    ELSE IF S.streams[peerID] # NoProto
    THEN Outcome(S, NoProto, "", <<>>)
    ELSE LET o == openStream(S, peerID, openOk) IN
         IF o.err # ""
         THEN Outcome(S, NoProto, o.err, <<>>)
         ELSE LET S2 == registerProtocol(o.S, peerID, o.stream) IN
              Outcome(S2, S2.streams[peerID], "", <<>>)

\* returns the protocol for the given peer or nil
proto(S, peerID) == S.streams[peerID]

\* calls the ProtocolForEachFunc on each protocol, in map order, until it
\* returns false: the protocols it can have been called on
forEach(S) ==
    LET all == {S.streams[p] : p \in {q \in Peers : S.streams[q] # NoProto}} IN
    IF all = {} THEN {{}} ELSE {v \in SUBSET all : v # {}}

(***************************************************************************)
(* The environment of the loop. Each producer (Service.Start closures,     *)
(* netNotifiee.ClosedStream, Service.Protocol, Service.ForEach) hands one  *)
(* message to the loop over an unbuffered channel; the loop handles one    *)
(* message per iteration, so a loop action takes the message as its input. *)
(***************************************************************************)
\* the manager reclassifies a peer and fires RelationUpdated: its closure
\* blocks on relationUpdatedChan until the loop receives the message
UpdateRelation(p, newRel) ==
    /\ relationUpdatedChan = <<>>
    /\ newRel # relation[p]
    /\ relation' = [relation EXCEPT ![p] = newRel]
    /\ relationUpdatedChan' = <<[peer |-> p, oldRelation |-> relation[p]]>>
    /\ UNCHANGED <<loopBlocked, offers, streams, protos, net, shutdownSignal, running,
                   startedCnt, terminatedCnt, createdBy, last, blockedCallers>>
    /\ UNCHANGED pruneVars

\* the shutdown signal is closed
Shutdown ==
    /\ ~shutdownSignal
    /\ shutdownSignal' = TRUE
    /\ UNCHANGED <<loopBlocked, offers, streams, protos, net, relation, relationUpdatedChan, running,
                   startedCnt, terminatedCnt, createdBy, last, blockedCallers>>
    /\ UNCHANGED pruneVars

\* the callers that are followed while they wait for the loop: one that
\* sends a request and waits for the answer (Service.Protocol; Service.ForEach
\* does the same on forEachChan) and one that only sends
\* (netNotifiee.ClosedStream)
Callers == {"Protocol", "ClosedStream"}

\* the caller that sends on a channel of the loop
CallerOf(chan) ==
    CASE chan = "streamReq" -> "Protocol"
      [] chan = "streamClosed" -> "ClosedStream"
      [] OTHER -> ""

\* caller c sends on its unbuffered channel after the loop has returned.
\* (A caller that arrives while the loop runs is received by the loop
\* action of its channel.)
BlockedSend(c) ==
    /\ ~running
    /\ c \notin blockedCallers
    /\ blockedCallers' = blockedCallers \cup {c}
    /\ UNCHANGED <<loopBlocked, offers, streams, protos, net, relation, relationUpdatedChan, shutdownSignal,
                   running, startedCnt, terminatedCnt, createdBy, last>>
    /\ UNCHANGED pruneVars

(***************************************************************************)
(* Producers. The channels of the loop are unbuffered: a producer (the     *)
(* stream handler, the Connected and Disconnected closures of Start) is    *)
(* blocked in its send from the moment it offers its event until the loop  *)
(* receives it.                                                            *)
(***************************************************************************)
MaxOffers == 3

\* the channels whose producers are followed
OfferChans == {"inboundStream", "connected", "disconnected"}

\* the offers of the event msg that the loop has not received
PendingOffers(ofs, msg) ==
    {i \in 1..Len(ofs) : ofs[i].chan = msg.chan /\ ofs[i].peer = msg.peer /\ ~ofs[i].handled}

\* a receive that takes every sender blocked with the event at once
ReceivedAll(ofs, msg) ==
    {[i \in 1..Len(ofs) |-> IF i \in PendingOffers(ofs, msg)
                             THEN [ofs[i] EXCEPT !.handled = TRUE] ELSE ofs[i]]}

\* the receive of a case of the select takes the event of one of the
\* senders blocked on the channel (the offers after the receive of msg:
\* which sender is served is up to the runtime); an event whose producer is
\* not followed leaves the offers as they are
Received(ofs, msg) ==
    IF PendingOffers(ofs, msg) = {} THEN {ofs}
    ELSE {[ofs EXCEPT ![i].handled = TRUE] : i \in PendingOffers(ofs, msg)}

\* a producer starts to offer an event of peer p on channel chan
Offer(chan, p) ==
    /\ running
    /\ Len(offers) < MaxOffers
    /\ offers' = Append(offers, [chan |-> chan, peer |-> p, handled |-> FALSE])
    /\ UNCHANGED <<loopBlocked, streams, protos, net, relation, relationUpdatedChan, shutdownSignal,
                   running, startedCnt, terminatedCnt, createdBy, last, blockedCallers>>
    /\ UNCHANGED pruneVars

(***************************************************************************)
(* Service.eventLoop: one action per case of the select.                   *)
(***************************************************************************)
CountEv(events, type, p) ==
    Cardinality({i \in 1..Len(events) : events[i].type = type /\ events[i].proto = p})

\* Events.X.Trigger: the counters of the started/terminated triggers
Trigger(cnt, type, events, nProtos) ==
    [p \in 1..nProtos |-> (IF p \in DOMAIN cnt THEN cnt[p] ELSE 0) + CountEv(events, type, p)]

RelationOf(p) == IF p \in ManagedPeers THEN relation[p] ELSE "none"

\* the loop's goroutine going on while it is blocked in a call
LoopAtSelectAlways == TRUE

\* the loop's goroutine is at its select: it is not inside a call that has
\* not returned
LoopAtSelect == loopBlocked = ""

\* the loop received msg and ran its case; the handler's outcome is o,
\* events are all the events triggered in the case, and blocked is the
\* method of the Service a callback of the case has called ("": none)
Handle(msg, o, events, reply, io, blocked) ==
    /\ loopBlocked' = blocked
    /\ streams' = o.S.streams
    /\ protos' = o.S.protos
    /\ net' = o.S.net
    /\ startedCnt' = Trigger(startedCnt, "ProtocolStarted", events, Len(o.S.protos))
    /\ terminatedCnt' = Trigger(terminatedCnt, "ProtocolTerminated", events, Len(o.S.protos))
    /\ createdBy' = [p \in 1..Len(o.S.protos) |->
                        IF p \in DOMAIN createdBy THEN createdBy[p] ELSE msg.chan]
    /\ last' = [chan |-> msg.chan, peer |-> msg.peer, stream |-> msg.stream, dir |-> msg.dir,
                before |-> IF msg.peer \in Peers THEN streams[msg.peer] ELSE NoProto,
                relation |-> RelationOf(msg.peer),
                events |-> events, reply |-> reply, io |-> io]
    /\ relationUpdatedChan' =
           IF msg.chan = "relationUpdated" THEN <<>> ELSE relationUpdatedChan
    /\ blockedCallers' = blockedCallers \ {CallerOf(msg.chan)}
    /\ offers' \in Received(offers, msg)
    /\ UNCHANGED <<relation, shutdownSignal, running>>
    /\ UNCHANGED pruneVars

\* one iteration of the loop: it received msg and ran its case to the end
Iteration(msg, o, events, reply, io) ==
    /\ LoopAtSelect
    /\ Handle(msg, o, events, reply, io, "")

\* the collaborator results an iteration consumed: Stream.Reset() is called
\* when a protocol is deregistered, host.NewStream when a stream is opened
ResetIO(p, resetOk) ==
    IF streams[p] = NoProto THEN "" ELSE IF resetOk THEN "reset ok" ELSE "reset failed"
OpenIO(openOk) == IF openOk THEN "open ok" ELSE "open failed"

\* the loop dropping the error a handler returned
AfterHandlerDropError(o) ==
    IF o.err = "" /\ o.proto # NoProto THEN o.events \o <<EvProtocolStarted(o.proto)>>
    ELSE o.events

\* what the loop triggers after a handler returned (proto, err)
AfterHandler(o) ==
    IF o.err # "" THEN o.events \o <<EvError(o.err)>>
    ELSE IF o.proto # NoProto THEN o.events \o <<EvProtocolStarted(o.proto)>>
    ELSE o.events

\* the loop returning although the shutdown signal has not fired
LoopShutdownUnsignalled ==
    /\ running
    /\ running' = FALSE
    /\ UNCHANGED <<loopBlocked, offers, streams, protos, net, relation, relationUpdatedChan, shutdownSignal,
                   startedCnt, terminatedCnt, createdBy, last, blockedCallers>>
    /\ UNCHANGED pruneVars

\* case <-shutdownSignal: return. A select chooses among the cases that are
\* ready, so the other cases stay enabled until this one is taken.
LoopShutdown ==
    /\ running
    /\ LoopAtSelect
    /\ shutdownSignal
    /\ running' = FALSE
    /\ UNCHANGED <<loopBlocked, offers, streams, protos, net, relation, relationUpdatedChan, shutdownSignal,
                   startedCnt, terminatedCnt, createdBy, last, blockedCallers>>
    /\ UNCHANGED pruneVars

\* the transport delivered a new inbound stream of peer p (SetStreamHandler)
LoopInboundStream(p) ==
    /\ running
    /\ Len(net) < MaxStreams
    /\ LET stream == Len(net) + 1
           S == [ServiceState EXCEPT !.net = Append(@, [peer |-> p, dir |-> DirInbound,
                                                        reset |-> FALSE, connClosed |-> FALSE])]
           o == handleInboundStream(S, stream)
       IN Iteration(Msg("inboundStream", p, stream, DirInbound, ""), o, AfterHandler(o), {}, "")

LoopConnected(p, dir, openOk) ==
    /\ running
    /\ openOk => Len(net) < MaxStreams
    /\ LET o == handleConnected(ServiceState, p, dir, openOk) IN
       Iteration(Msg("connected", p, NoStream, dir, ""), o, AfterHandler(o), {},
                 IF streams[p] = NoProto /\ dir = DirOutbound THEN OpenIO(openOk) ELSE "")

LoopDisconnected(p, resetOk) ==
    /\ running
    /\ LET o == closeStream(ServiceState, p, resetOk) IN
       Iteration(Msg("disconnected", p, NoStream, "", ""), o, o.events, {}, ResetIO(p, resetOk))

\* netNotifiee.ClosedStream posted the closed stream and its remote peer
LoopStreamClosed(stream, resetOk) ==
    /\ running
    /\ stream \in 1..Len(net)
    /\ LET o == closeStream(ServiceState, net[stream].peer, resetOk) IN
       Iteration(Msg("streamClosed", net[stream].peer, stream, "", ""), o, o.events, {},
                 ResetIO(net[stream].peer, resetOk))

LoopRelationUpdated(openOk, resetOk) ==
    /\ running
    /\ relationUpdatedChan # <<>>
    /\ openOk => Len(net) < MaxStreams
    /\ LET p == relationUpdatedChan[1].peer
           oldRel == relationUpdatedChan[1].oldRelation
           o == handleRelationUpdated(ServiceState, p, oldRel, openOk, resetOk)
       IN
       Iteration(Msg("relationUpdated", p, NoStream, "", oldRel), o, AfterHandler(o), {},
                 IF relation[p] = PeerRelationUnknown THEN ResetIO(p, resetOk)
                 ELSE IF streams[p] = NoProto THEN OpenIO(openOk) ELSE "")

\* the loop still answering a stream request after it returned
LoopStreamReqAfterReturn(p) ==
    Iteration(Msg("streamReq", p, NoStream, "", ""), Outcome(ServiceState, NoProto, "", <<>>),
              <<>>, {proto(ServiceState, p)}, "")

LoopStreamReq(p) ==
    /\ running
    /\ Iteration(Msg("streamReq", p, NoStream, "", ""), Outcome(ServiceState, NoProto, "", <<>>),
                 <<>>, {proto(ServiceState, p)}, "")

LoopForEach ==
    /\ running
    /\ \E visited \in forEach(ServiceState) :
        Iteration(Msg("forEach", "", NoStream, "", ""), Outcome(ServiceState, NoProto, "", <<>>),
                  <<>>, visited, "")

\* tangle.GetSnapshotInfo() returning nil
NoSnapshotInfo == [SnapshotIndex |-> 0, PruningIndex |-> 0, EntryPointIndex |-> 0, stored |-> FALSE]
\* no pruneDatabase call yet
NoCall == [target |-> 0, before |-> NoSnapshotInfo, result |-> "none",
           iterated |-> {}, skipped |-> {}, failed |-> {}, cone |-> {},
           ledgerFailed |-> {}]
NoPrevCall == [target |-> 0, targetIndex |-> 0, result |-> "none"]

\* the pruning engine and its store while the gossip Service is examined
PruneQuiet ==
    /\ snapshotInfo = NoSnapshotInfo
    /\ solidEntryPoints = {}
    /\ messages = {}
    /\ children = {}
    /\ unconfirmed = {}
    /\ milestones = {}
    /\ ledgerDiffs = {}
    /\ isPruning = FALSE
    /\ abortSignal = FALSE
    /\ pc = "idle"
    /\ targetIndex = 0
    /\ milestoneIndex = 0
    /\ call = NoCall
    /\ prevCall = NoPrevCall
    /\ pruningEvents = <<>>
    /\ gcRequested = FALSE
    /\ handleTrace = <<>>

GossipInit ==
    /\ streams = [p \in Peers |-> NoProto]
    /\ protos = <<>>
    /\ net = <<>>
    /\ relation \in [ManagedPeers -> PeerRelations]
    /\ relationUpdatedChan = <<>>
    /\ shutdownSignal = FALSE
    /\ running = TRUE
    /\ startedCnt = <<>>
    /\ terminatedCnt = <<>>
    /\ createdBy = <<>>
    /\ blockedCallers = {}
    /\ offers = <<>>
    /\ loopBlocked = ""
    /\ last = [chan |-> "", peer |-> "", stream |-> NoStream, dir |-> "", before |-> NoProto,
               relation |-> "", events |-> <<>>, reply |-> {}, io |-> ""]


Init == GossipInit /\ PruneQuiet

Next ==
    \/ \E p \in ManagedPeers, r \in PeerRelations : UpdateRelation(p, r)
    \/ Shutdown
    \/ LoopShutdown
    \/ \E p \in Peers : LoopInboundStream(p)
    \/ \E p \in ManagedPeers, dir \in {DirInbound, DirOutbound}, openOk \in BOOLEAN :
          LoopConnected(p, dir, openOk)
    \/ \E p \in ManagedPeers, resetOk \in BOOLEAN : LoopDisconnected(p, resetOk)
    \/ \E s \in 1..MaxStreams, resetOk \in BOOLEAN : LoopStreamClosed(s, resetOk)
    \/ \E openOk \in BOOLEAN, resetOk \in BOOLEAN : LoopRelationUpdated(openOk, resetOk)
    \/ \E p \in Peers : LoopStreamReq(p)
    \/ LoopForEach
    \/ \E c \in Callers : BlockedSend(c)

Spec == Init /\ [][Next]_<<gossipVars, pruneVars>>

(***************************************************************************)
(* The loop with its producers followed: an event is first offered on its  *)
(* channel and handled when the select receives it. A select with several  *)
(* ready cases takes any of them.                                          *)
(***************************************************************************)
\* a producer is blocked offering an event of peer p on the channel
Offered(chan, p) ==
    \E i \in 1..Len(offers) : offers[i].chan = chan /\ offers[i].peer = p /\ ~offers[i].handled

ReceiveInboundStream(p) == Offered("inboundStream", p) /\ LoopInboundStream(p)

\* the connected events that are followed are those of outbound connections
ReceiveConnected(p, openOk) == Offered("connected", p) /\ LoopConnected(p, DirOutbound, openOk)

ReceiveDisconnected(p, resetOk) == Offered("disconnected", p) /\ LoopDisconnected(p, resetOk)

OrderNext ==
    \/ \E p \in Peers : Offer("inboundStream", p)
    \/ \E c \in OfferChans \ {"inboundStream"}, p \in ManagedPeers : Offer(c, p)
    \/ \E p \in Peers : ReceiveInboundStream(p)
    \/ \E p \in ManagedPeers, openOk \in BOOLEAN : ReceiveConnected(p, openOk)
    \/ \E p \in ManagedPeers, resetOk \in BOOLEAN : ReceiveDisconnected(p, resetOk)

OrderSpec == Init /\ [][OrderNext]_<<gossipVars, pruneVars>>

(***************************************************************************)
(* Callbacks that call back into the Service. Events are triggered, and    *)
(* the ProtocolForEachFunc is called, in the goroutine of the loop; a      *)
(* callback that calls Service.Protocol or Service.ForEach sends on        *)
(* streamReqChan or forEachChan, which only the loop receives from.        *)
(***************************************************************************)
\* the methods of the Service that send a request to the loop and wait for
\* the answer
RequestAPI == {"Protocol", "ForEach"}

\* what a case has written when it triggers its event:
\* InboundStreamCancelled is triggered before closeUnwantedStream, every
\* other event after the writes of its handler
AtTrigger(S, o, events) ==
    IF events # <<>> /\ events[1].type = "InboundStreamCancelled" THEN [o EXCEPT !.S = S] ELSE o

\* the inbound case triggers an event whose handler calls api
InboundStreamCallback(p, api) ==
    /\ running
    /\ LoopAtSelect
    /\ Len(net) < MaxStreams
    /\ LET stream == Len(net) + 1
           S == [ServiceState EXCEPT !.net = Append(@, [peer |-> p, dir |-> DirInbound,
                                                        reset |-> FALSE, connClosed |-> FALSE])]
           o == handleInboundStream(S, stream)
       IN /\ AfterHandler(o) # <<>>
          /\ Handle(Msg("inboundStream", p, stream, DirInbound, ""),
                    AtTrigger(S, o, AfterHandler(o)), AfterHandler(o), {}, "", api)

\* the disconnected case triggers an event whose handler calls api
DisconnectedCallback(p, resetOk, api) ==
    /\ running
    /\ LoopAtSelect
    /\ LET o == closeStream(ServiceState, p, resetOk)
       IN /\ o.events # <<>>
          /\ Handle(Msg("disconnected", p, NoStream, "", ""), o, o.events, {},
                    ResetIO(p, resetOk), api)

\* the forEach case calls a ProtocolForEachFunc that calls api: the
\* function does not return and forEachMsg.back is never sent
ForEachCallback(api) ==
    /\ running
    /\ LoopAtSelect
    /\ \E visited \in forEach(ServiceState) :
        /\ visited # {}
        /\ Handle(Msg("forEach", "", NoStream, "", ""), Outcome(ServiceState, NoProto, "", <<>>),
                  <<>>, visited, "", api)

ReentryNext ==
    \/ Shutdown
    \/ LoopShutdown
    \/ \E p \in Peers : LoopInboundStream(p)
    \/ \E p \in ManagedPeers, resetOk \in BOOLEAN : LoopDisconnected(p, resetOk)
    \/ \E p \in Peers : LoopStreamReq(p)
    \/ LoopForEach
    \/ \E p \in Peers, api \in RequestAPI : InboundStreamCallback(p, api)
    \/ \E p \in ManagedPeers, resetOk \in BOOLEAN, api \in RequestAPI :
          DisconnectedCallback(p, resetOk, api)
    \/ \E api \in RequestAPI : ForEachCallback(api)

ReentrySpec == Init /\ [][ReentryNext]_<<gossipVars, pruneVars>>

(***************************************************************************)
(* Properties of the gossip Service.                                       *)
(***************************************************************************)
\* the protocol instances whose stream the Service has not reset
Live(p) == {i \in 1..Len(protos) : protos[i].PeerID = p /\ ~net[protos[i].Stream].reset}

HasEvent(events, ev) == \E i \in 1..Len(events) : events[i] = ev
HasEventType(events, type) == \E i \in 1..Len(events) : events[i].type = type

\* the last iteration registered a protocol instance
LastRegistered == last.chan # "" /\ streams[last.peer] # NoProto /\ streams[last.peer] # last.before

\* C1: each peer has at most one live session, and it is the one streams
\* holds: no registered session is ever overwritten and left un-reset.
C1_AtMostOneSessionPerPeer ==
    \A p \in Peers :
        /\ Cardinality(Live(p)) <= 1
        /\ \A i \in Live(p) : streams[p] = i
        /\ streams[p] # NoProto => streams[p] \in Live(p)

\* a second registration was attempted for a peer that has a session, and a
\* peer got a second session after its first one was removed
C1_Witness ==
    /\ Len(protos) = 2
    /\ protos[1].PeerID = protos[2].PeerID
    /\ streams[protos[2].PeerID] = 2
    /\ last.chan \in {"connected", "relationUpdated"}
    /\ last.before = 2

\* C2: every started session that has left streams has exactly one
\* ProtocolTerminated, every session still in streams has none, and every
\* session was started exactly once.
C2_StartedPairedWithTerminated ==
    \A i \in 1..Len(protos) :
        /\ startedCnt[i] = 1
        /\ terminatedCnt[i] = IF streams[protos[i].PeerID] = i THEN 0 ELSE 1

\* C3: a relationUpdated processed while the relation is unknown, for a peer
\* whose session was created by connected(outbound), removes the session and
\* emits ProtocolTerminated exactly once for it.
C3_DowngradeTerminatesOnce ==
    ( /\ last.chan = "relationUpdated"
      /\ last.relation = PeerRelationUnknown
      /\ last.before # NoProto
      /\ createdBy[last.before] = "connected" )
    => /\ streams[last.peer] = NoProto
       /\ terminatedCnt[last.before] = 1

\* C4: an inbound stream of a peer that already has a session is cancelled
\* as duplicated, the stream and its connection are closed, no
\* ProtocolStarted is emitted and streams keeps the original session.
C4_DuplicateInboundCancelled ==
    (last.chan = "inboundStream" /\ last.before # NoProto)
    => /\ last.events = <<EvInboundStreamCancelled(last.stream, StreamCancelReasonDuplicated)>>
       /\ net[last.stream].reset
       /\ net[last.stream].connClosed
       /\ streams[last.peer] = last.before
       /\ protos[last.before].Stream # last.stream
       /\ ~net[protos[last.before].Stream].reset
       /\ \A i \in 1..Len(protos) : protos[i].Stream # last.stream

C4_Witness ==
    /\ last.chan = "inboundStream"
    /\ last.before # NoProto
    /\ net[protos[last.before].Stream].dir = DirOutbound

\* C5: a session is registered only while the peer's relation is not
\* unknown, on every registration path; an inbound stream of a peer without
\* a session whose relation is unknown, or whom the manager does not know,
\* is cancelled with InsufficientPeerRelation and creates no session.
C5_RegisteredOnlyWithRelation ==
    /\ LastRegistered => last.relation \notin {PeerRelationUnknown, "none"}
    /\ ( /\ last.chan = "inboundStream"
         /\ last.before = NoProto
         /\ last.relation \in {PeerRelationUnknown, "none"} )
       => /\ last.events = <<EvInboundStreamCancelled(last.stream,
                                  StreamCancelReasonInsufficientPeerRelation)>>
          /\ streams[last.peer] = NoProto

\* C6: when disconnected or streamClosed finds a session and the reset of
\* its stream fails, the session is removed all the same, the failure is
\* triggered on Error, and the loop keeps running.
C6_ResetFailureStillRemoves ==
    [][ ( /\ last' # last
          /\ last'.chan \in {"disconnected", "streamClosed"}
          /\ last'.before # NoProto
          /\ last'.io = "reset failed" )
        => /\ streams'[last'.peer] = NoProto
           /\ net'[protos[last'.before].Stream].reset
           /\ last'.events = <<EvError("unable to cleanly reset stream")>>
           /\ running /\ running' ]_gossipVars

C6_Witness ==
    /\ last.chan \in {"disconnected", "streamClosed"}
    /\ last.before # NoProto
    /\ last.io = "reset failed"
    /\ streams[last.peer] = NoProto

(***************************************************************************)
(* The pruning engine (plugins/snapshot/pruning.go).                       *)
(***************************************************************************)
AdditionalPruningThreshold == 50
\* the configured snapshots.solidEntryPointCheckThresholdPast
SolidEntryPointCheckThresholdPast == 50
\* milestone.Index is an unsigned 32 bit integer; the model keeps the
\* wrap-around of its arithmetic at a narrower width
IndexModulus == 65536

Add32(a, b) == (a + b) % IndexModulus
Sub32(a, b) == (a - b) % IndexModulus

ErrNotEnoughHistory == "not enough history"
ErrNoPruningNeeded == "no pruning needed"
ErrPruningAborted == "pruning was aborted"

SnapshotInfo(s, p, e) == [SnapshotIndex |-> s, PruningIndex |-> p, EntryPointIndex |-> e, stored |-> TRUE]

(***************************************************************************)
(* The DAG. Message IDs are numbers: 10*i + k is a message attached to     *)
(* milestone index i, of kind k:                                           *)
(*   0  the milestone message of index i (confirmed at i)                  *)
(*   1  a message confirmed by milestone i                                 *)
(*   2  an unconfirmed message                                             *)
(*   3  an unconfirmed message that belongs to a milestone bundle          *)
(*   4  an unconfirmed message that is listed but no longer stored         *)
(*   5  an unconfirmed message that may be a milestone transaction but     *)
(*      whose bundles are no milestones                                    *)
(*   6  an unconfirmed message that may be a milestone transaction and     *)
(*      has no bundle                                                      *)
(***************************************************************************)
Kind(id) == id % 10
IndexOf(id) == id \div 10
MilestoneMessageID(i) == 10 * i
GetParent1MessageID(id) == IF Kind(id) = 0 THEN id + 1 ELSE 10 * (IndexOf(id) - 1)
GetParent2MessageID(id) == IF Kind(id) = 0 THEN 10 * (IndexOf(id) - 1) ELSE 10 * (IndexOf(id) - 1) + 1
IsConfirmed(id) == Kind(id) \in {0, 1}
IsMaybeMilestoneTx(id) == Kind(id) \in {0, 3, 5, 6}
\* GetBundlesOfTransactionOrNil returns a collection that is not empty
HasBundles(id) == Kind(id) \in {0, 3, 5}
HasMilestoneBundle(id) == Kind(id) \in {0, 3}

\* the part of the store the pruning functions write
Store == [messages |-> messages, children |-> children, unconfirmed |-> unconfirmed,
          milestones |-> milestones, ledgerDiffs |-> ledgerDiffs]

\* pruneMessages: for every message of the set that is stored, deletes the
\* reference in the parents, its children entries and the message
pruneMessages(D, messageIDsToDelete) ==
    LET present == messageIDsToDelete \cap D.messages IN
    [D EXCEPT !.children = {e \in @ : e[2] \notin present /\ e[1] \notin present},
              !.messages = @ \ present]

\* txsToCheckMap without the look at the bundles
txsToCheckMapNoMilestoneCheck(D, index) ==
    {m \in {e[2] : e \in {u \in D.unconfirmed : u[1] = index}} :
        m \in D.messages /\ ~IsConfirmed(m)}

\* pruneUnconfirmedTransactions: the IDs it hands to pruneMessages
txsToCheckMap(D, index) ==
    {m \in {e[2] : e \in {u \in D.unconfirmed : u[1] = index}} :
        /\ m \in D.messages
        /\ ~IsConfirmed(m)
        /\ ~(IsMaybeMilestoneTx(m) /\ HasMilestoneBundle(m))}

pruneUnconfirmedTransactions(D, index) ==
    LET D2 == pruneMessages(D, txsToCheckMap(D, index)) IN
    [D2 EXCEPT !.unconfirmed = {u \in @ : u[1] # index}]

\* pruneMilestone leaving the milestone in the store
pruneMilestoneKeepMilestone(D, index, ledgerOk) ==
    [D EXCEPT !.ledgerDiffs = IF ledgerOk THEN @ \ {index} ELSE @]

\* pruneMilestone never deleting the ledger diff
pruneMilestoneKeepLedgerDiff(D, index, ledgerOk) ==
    [D EXCEPT !.milestones = @ \ {index}]

\* pruneMilestone: deletes the ledger diff, which can fail with an error that
\* is only logged (ledgerOk is the outcome), and deletes the milestone
pruneMilestone(D, index, ledgerOk) ==
    [D EXCEPT !.ledgerDiffs = IF ledgerOk THEN @ \ {index} ELSE @,
              !.milestones = @ \ {index}]

(***************************************************************************)
(* Collaborators whose code is not part of the sources at hand.            *)
(***************************************************************************)
RECURSIVE ParentCone(_, _, _)
ParentCone(C, msgs, entryPoints) ==
    LET next == C \cup {q \in {GetParent1MessageID(m) : m \in C} \cup {GetParent2MessageID(m) : m \in C} :
                          q \in msgs /\ q \notin entryPoints}
    IN IF next = C THEN C ELSE ParentCone(next, msgs, entryPoints)

\* dag.TraverseParents with the hooks pruneDatabase passes: the IDs handed
\* to the consumer. Solid entry points are not descended into, except the
\* start; missing parents are ignored.
TraverseParents(start, msgs, seps) ==
    IF start \notin msgs THEN {}
    ELSE ParentCone({start}, msgs, {e[1] : e \in seps})

\* getSolidEntryPoints(targetIndex): the target milestone message and the
\* confirmed messages at or below the target, within the check threshold,
\* that a message confirmed above the target references
getSolidEntryPoints(target, msgs, chld) ==
    {<<m, IndexOf(m)>> : m \in
        {x \in msgs \cup {MilestoneMessageID(target)} :
            /\ IsConfirmed(x)
            /\ IndexOf(x) <= target
            /\ IndexOf(x) + SolidEntryPointCheckThresholdPast >= target
            /\ \/ x = MilestoneMessageID(target)
               \/ \E e \in chld : e[1] = x /\ e[2] \in msgs /\ IsConfirmed(e[2])
                                   /\ IndexOf(e[2]) > target}}

(***************************************************************************)
(* Cache handles. Every handle the engine gets is reference-counted: the   *)
(* engine's steps are followed as the sequence of acquisitions (+1) and    *)
(* releases (-1) they make, handle by handle.                              *)
(***************************************************************************)
Acquire(kind, id) == [op |-> "acquire", kind |-> kind, id |-> id]
Release(kind, id) == [op |-> "release", kind |-> kind, id |-> id]

\* the elements of a set of IDs, in the order a loop visits them
RECURSIVE Ordered(_)
Ordered(S) ==
    IF S = {} THEN <<>>
    ELSE LET m == CHOOSE x \in S : \A y \in S : x <= y
         IN <<m>> \o Ordered(S \ {m})

RECURSIVE Concat(_)
Concat(seqs) == IF seqs = <<>> THEN <<>> ELSE Head(seqs) \o Concat(Tail(seqs))

\* tangle.IsMaybeMilestoneTx releases the handle it is passed
IsMaybeMilestoneTxHandles(m) == <<Release("msg", m)>>

\* the body of the loop of pruneUnconfirmedTransactions for a confirmed
\* message without its cachedMsg.Release
confirmedMessageHandlesNoRelease(m) == <<>>

\* the body of the loop of pruneUnconfirmedTransactions for a message that
\* is confirmed
confirmedMessageHandles(m) == <<Release("msg", m)>>

\* the body of the loop of pruneUnconfirmedTransactions for one listed ID
unconfirmedMessageHandles(D, m) ==
    IF m \notin D.messages THEN <<>>
    ELSE <<Acquire("msg", m)>> \o
         IF IsConfirmed(m) THEN confirmedMessageHandles(m)
         ELSE <<Acquire("msg", m)>> \o IsMaybeMilestoneTxHandles(m) \o
              IF IsMaybeMilestoneTx(m) /\ HasBundles(m)
              THEN <<Acquire("bundles", m)>> \o
                   IF HasMilestoneBundle(m)
                   THEN <<Release("msg", m), Release("bundles", m)>>
                   ELSE <<Release("bundles", m), Release("msg", m)>>
              ELSE <<Release("msg", m)>>

\* pruneMessages: GetCachedMessageOrNil and ConsumeMessage for every ID that
\* is stored
pruneMessagesHandles(D, messageIDsToDelete) ==
    LET ids == Ordered(messageIDsToDelete \cap D.messages)
    IN Concat([i \in 1..Len(ids) |-> <<Acquire("msg", ids[i]), Release("msg", ids[i])>>])

pruneUnconfirmedTransactionsHandles(D, index) ==
    LET ids == Ordered({e[2] : e \in {u \in D.unconfirmed : u[1] = index}})
    IN Concat([i \in 1..Len(ids) |-> unconfirmedMessageHandles(D, ids[i])])
       \o pruneMessagesHandles(D, txsToCheckMap(D, index))

\* dag.TraverseParents hands every callback a handle of its own
TraverseParentsPass(m) == <<Acquire("metadata", m)>>

\* the condition and the consumer pruneDatabase passes: defer Release
traverseCondition(m) == <<Release("metadata", m)>>
traverseConsumer(m) == <<Release("metadata", m)>>

\* the loop body of pruneDatabase from GetCachedMilestoneOrNil to the error
\* check: visited are the messages the traversal got to
milestoneHandles(D, index, visited) ==
    IF index \notin D.milestones THEN <<>>
    ELSE LET ids == Ordered(visited)
         IN <<Acquire("milestone", index)>>
            \o Concat([i \in 1..Len(ids) |->
                          TraverseParentsPass(ids[i]) \o traverseCondition(ids[i])
                          \o TraverseParentsPass(ids[i]) \o traverseConsumer(ids[i])])
            \o <<Release("milestone", index)>>

(***************************************************************************)
(* pruneDatabase: the guards.                                              *)
(***************************************************************************)
\* the first guard never refusing
NotEnoughSnapshotHistoryNever(info) == FALSE

NotEnoughSnapshotHistory(info) ==
    info.SnapshotIndex < Add32(Add32(SolidEntryPointCheckThresholdPast, AdditionalPruningThreshold), 1)

targetIndexMax(info) ==
    Sub32(Sub32(Sub32(info.SnapshotIndex, SolidEntryPointCheckThresholdPast),
                AdditionalPruningThreshold), 1)

\* the target left as requested
ClampTargetNot(info, target) == target

ClampTarget(info, target) ==
    IF target > targetIndexMax(info) THEN targetIndexMax(info) ELSE target

NoPruningNeeded(info, target) == info.PruningIndex >= target

\* the step guard never refusing
EntryPointsTooRecentNever(info, target) == FALSE

EntryPointsTooRecent(info, target) ==
    Add32(Add32(info.EntryPointIndex, AdditionalPruningThreshold), 1) > target

\* the error the guards return ("": none) and the clamped target
Guards(info, target) ==
    IF NotEnoughSnapshotHistory(info)
    THEN [err |-> ErrNotEnoughHistory, targetIndex |-> target]
    ELSE LET t == ClampTarget(info, target) IN
         IF NoPruningNeeded(info, t) THEN [err |-> ErrNoPruningNeeded, targetIndex |-> t]
         ELSE IF EntryPointsTooRecent(info, t) THEN [err |-> ErrNotEnoughHistory, targetIndex |-> t]
         ELSE [err |-> "", targetIndex |-> t]

(***************************************************************************)
(* pruneDatabase, step by step. The abort signal is read in                *)
(* getSolidEntryPoints and at the top of every loop iteration.             *)
(***************************************************************************)
\* the call returning without the deferred setIsPruning(false)
ReturnNoDefer(result) ==
    /\ pc' = "idle"
    /\ call' = [call EXCEPT !.result = result]
    /\ UNCHANGED isPruning

\* the call returns result; the deferred setIsPruning(false) runs if the
\* call got past its guards
Return(result) ==
    /\ pc' = "idle"
    /\ call' = [call EXCEPT !.result = result]
    /\ isPruning' = FALSE

WriteStore(D) ==
    /\ messages' = D.messages
    /\ children' = D.children
    /\ unconfirmed' = D.unconfirmed
    /\ milestones' = D.milestones
    /\ ledgerDiffs' = D.ledgerDiffs

storeVars == <<messages, children, unconfirmed, milestones, ledgerDiffs>>

\* a guard returning after setIsPruning(true), with no deferred reset
GuardReturnAfterSetIsPruning(c, err) ==
    /\ pc' = "idle"
    /\ call' = [c EXCEPT !.result = err]
    /\ isPruning' = TRUE

\* a guard returns its error: setIsPruning(true) and its deferred reset come
\* after the guards
GuardReturn(c, err) ==
    /\ pc' = "idle"
    /\ call' = [c EXCEPT !.result = err]
    /\ UNCHANGED isPruning

\* pruneDatabase(target, abortSignal) up to setIsPruning(true)
PruneDatabase(target) ==
    /\ pc = "idle"
    /\ prevCall' = IF call.result \in {"ok", ErrPruningAborted}
                   THEN [target |-> call.target, targetIndex |-> targetIndex, result |-> call.result]
                   ELSE prevCall
    /\ pruningEvents' = <<>>
    /\ gcRequested' = FALSE
    /\ handleTrace' = <<>>
    /\ milestoneIndex' = 0
    /\ IF ~snapshotInfo.stored
       THEN \* log.Panic("No snapshotInfo found!")
            /\ pc' = "panicked"
            /\ call' = [NoCall EXCEPT !.target = target, !.result = "panic"]
            /\ UNCHANGED <<isPruning, targetIndex>>
       ELSE LET g == Guards(snapshotInfo, target)
                c == [target |-> target, before |-> snapshotInfo, result |-> "",
                      iterated |-> {}, skipped |-> {}, failed |-> {}, cone |-> {},
                      ledgerFailed |-> {}]
            IN /\ targetIndex' = g.targetIndex
               /\ IF g.err # ""
                  THEN GuardReturn(c, g.err)
                  ELSE /\ pc' = "getSolidEntryPoints"
                       /\ call' = c
                       /\ isPruning' = TRUE
    /\ UNCHANGED <<snapshotInfo, solidEntryPoints, storeVars, abortSignal>>
    /\ UNCHANGED gossipVars

\* the loop iterations at whose start the abort signal can have been closed
AbortPoints == {801, 804, 851, 905}

\* the abort signal is closed, before getSolidEntryPoints or a loop iteration
\* reads it
Abort ==
    /\ \/ pc = "getSolidEntryPoints"
       \/ pc = "loop" /\ milestoneIndex \in AbortPoints
    /\ ~abortSignal
    /\ abortSignal' = TRUE
    /\ UNCHANGED <<snapshotInfo, solidEntryPoints, storeVars, isPruning, pc, targetIndex,
                   milestoneIndex, call, prevCall, pruningEvents, gcRequested,
                   handleTrace>>
    /\ UNCHANGED gossipVars

\* the node is started again after an abort
Restart ==
    /\ pc = "idle"
    /\ abortSignal
    /\ abortSignal' = FALSE
    /\ UNCHANGED <<snapshotInfo, solidEntryPoints, storeVars, isPruning, pc, targetIndex,
                   milestoneIndex, call, prevCall, pruningEvents, gcRequested,
                   handleTrace>>
    /\ UNCHANGED gossipVars

\* newSolidEntryPoints, err := getSolidEntryPoints(targetIndex, abortSignal),
\* then the entry points are reset, added and stored under the write lock
StoreSolidEntryPoints ==
    /\ pc = "getSolidEntryPoints"
    /\ IF abortSignal
       THEN /\ Return(ErrPruningAborted)
            /\ UNCHANGED solidEntryPoints
       ELSE /\ solidEntryPoints' = getSolidEntryPoints(targetIndex, messages, children)
            /\ pc' = "setEntryPointIndex"
            /\ UNCHANGED <<call, isPruning>>
    /\ UNCHANGED <<snapshotInfo, storeVars, abortSignal, targetIndex, milestoneIndex,
                   prevCall, pruningEvents, gcRequested,
                   handleTrace>>
    /\ UNCHANGED gossipVars

\* the deletions starting without the new EntryPointIndex being persisted
SetEntryPointIndexNotPersisted ==
    /\ pc = "setEntryPointIndex"
    /\ pc' = "pruneUnconfirmed"
    /\ UNCHANGED <<snapshotInfo, solidEntryPoints, storeVars, isPruning, abortSignal,
                   targetIndex, milestoneIndex, call, prevCall, pruningEvents, gcRequested,
                   handleTrace>>
    /\ UNCHANGED gossipVars

\* snapshotInfo.EntryPointIndex = targetIndex; tangle.SetSnapshotInfo(snapshotInfo)
SetEntryPointIndex ==
    /\ pc = "setEntryPointIndex"
    /\ snapshotInfo' = [snapshotInfo EXCEPT !.EntryPointIndex = targetIndex]
    /\ pc' = "pruneUnconfirmed"
    /\ UNCHANGED <<solidEntryPoints, storeVars, isPruning, abortSignal, targetIndex,
                   milestoneIndex, call, prevCall, pruningEvents, gcRequested,
                   handleTrace>>
    /\ UNCHANGED gossipVars

\* the first milestone of the loop
FirstMilestone(info) == Add32(info.PruningIndex, 1)

\* pruneUnconfirmedTransactions(snapshotInfo.PruningIndex) and the loop header
PruneUnconfirmedOfPruningIndex ==
    /\ pc = "pruneUnconfirmed"
    /\ WriteStore(pruneUnconfirmedTransactions(Store, snapshotInfo.PruningIndex))
    /\ handleTrace' = pruneUnconfirmedTransactionsHandles(Store, snapshotInfo.PruningIndex)
    /\ milestoneIndex' = FirstMilestone(snapshotInfo)
    /\ pc' = "loop"
    /\ UNCHANGED <<snapshotInfo, solidEntryPoints, isPruning, abortSignal, targetIndex,
                   call, prevCall, pruningEvents, gcRequested>>
    /\ UNCHANGED gossipVars

\* indexes at which the cone traversal of the milestone can fail
TraversalFaults == {805}

\* indexes at which deleting the ledger diff of the milestone can fail
LedgerDiffFaults == {802, 851}

\* the iteration going on after a traversal error
MilestoneSkippedOnlyIfMissing(D, index, traverseOk) == index \notin D.milestones

\* the iteration is given up (continue): the milestone is not found, or its
\* cone traversal returned an error
MilestoneSkipped(D, index, traverseOk) == index \notin D.milestones \/ ~traverseOk

\* one loop iteration up to pruneMilestone; traverseOk is the result of
\* dag.TraverseParents, ledgerOk that of tangle.DeleteLedgerDiffForMilestone
PruneMilestoneIteration(traverseOk, ledgerOk) ==
    /\ pc = "loop"
    /\ milestoneIndex <= targetIndex
    /\ ~traverseOk => milestoneIndex \in TraversalFaults
    /\ ~ledgerOk => /\ milestoneIndex \in LedgerDiffFaults
                    /\ ~abortSignal
                    /\ milestoneIndex \in milestones
    /\ IF abortSignal
       THEN /\ Return(ErrPruningAborted)
            /\ handleTrace' = <<>>
            /\ UNCHANGED <<storeVars, milestoneIndex>>
       ELSE LET D1 == pruneUnconfirmedTransactions(Store, milestoneIndex)
                cone == TraverseParents(MilestoneMessageID(milestoneIndex),
                                        D1.messages, solidEntryPoints)
                handles == pruneUnconfirmedTransactionsHandles(Store, milestoneIndex)
                           \o milestoneHandles(D1, milestoneIndex,
                                               IF traverseOk THEN cone ELSE {})
                failure == IF milestoneIndex \in D1.milestones /\ traverseOk
                           THEN {} ELSE {milestoneIndex}
            IN
            IF MilestoneSkipped(D1, milestoneIndex, traverseOk)
            THEN /\ WriteStore(D1)
                 /\ handleTrace' = handles
                 /\ milestoneIndex' = Add32(milestoneIndex, 1)
                 /\ call' = [call EXCEPT !.iterated = @ \cup {milestoneIndex},
                                         !.skipped = @ \cup {milestoneIndex},
                                         !.failed = @ \cup failure]
                 /\ UNCHANGED <<pc, isPruning>>
            ELSE LET msgsToCheckMap == TraverseParents(MilestoneMessageID(milestoneIndex),
                                                       D1.messages, solidEntryPoints)
                     D2 == pruneMessages(D1, msgsToCheckMap)
                 IN /\ WriteStore(pruneMilestone(D2, milestoneIndex, ledgerOk))
                    /\ handleTrace' = handles \o pruneMessagesHandles(D1, msgsToCheckMap)
                    /\ call' = [call EXCEPT !.iterated = @ \cup {milestoneIndex},
                                            !.failed = @ \cup failure,
                                            !.cone = msgsToCheckMap,
                                            !.ledgerFailed = IF ledgerOk THEN @
                                                             ELSE @ \cup {milestoneIndex}]
                    /\ pc' = "setPruningIndex"
                    /\ UNCHANGED <<milestoneIndex, isPruning>>
    /\ UNCHANGED <<snapshotInfo, solidEntryPoints, abortSignal, targetIndex,
                   prevCall, pruningEvents, gcRequested>>
    /\ UNCHANGED gossipVars

\* the iteration going on without PruningIndex being persisted
SetPruningIndexNotPersisted ==
    /\ pc = "setPruningIndex"
    /\ pc' = "trigger"
    /\ UNCHANGED <<snapshotInfo, solidEntryPoints, storeVars, isPruning, abortSignal,
                   targetIndex, milestoneIndex, call, prevCall, pruningEvents, gcRequested,
                   handleTrace>>
    /\ UNCHANGED gossipVars

\* snapshotInfo.PruningIndex = milestoneIndex; tangle.SetSnapshotInfo(snapshotInfo)
SetPruningIndex ==
    /\ pc = "setPruningIndex"
    /\ snapshotInfo' = [snapshotInfo EXCEPT !.PruningIndex = milestoneIndex]
    /\ pc' = "trigger"
    /\ UNCHANGED <<solidEntryPoints, storeVars, isPruning, abortSignal, targetIndex,
                   milestoneIndex, call, prevCall, pruningEvents, gcRequested,
                   handleTrace>>
    /\ UNCHANGED gossipVars

\* the event triggered twice for the milestone
TriggerPruningMilestoneIndexChangedTwice ==
    /\ pc = "trigger"
    /\ pruningEvents' = pruningEvents \o <<milestoneIndex, milestoneIndex>>
    /\ milestoneIndex' = Add32(milestoneIndex, 1)
    /\ pc' = "loop"
    /\ UNCHANGED <<snapshotInfo, solidEntryPoints, storeVars, isPruning, abortSignal,
                   targetIndex, call, prevCall, gcRequested,
                   handleTrace>>
    /\ UNCHANGED gossipVars

\* Events.PruningMilestoneIndexChanged.Trigger(milestoneIndex); milestoneIndex++
TriggerPruningMilestoneIndexChanged ==
    /\ pc = "trigger"
    /\ pruningEvents' = Append(pruningEvents, milestoneIndex)
    /\ milestoneIndex' = Add32(milestoneIndex, 1)
    /\ pc' = "loop"
    /\ UNCHANGED <<snapshotInfo, solidEntryPoints, storeVars, isPruning, abortSignal,
                   targetIndex, call, prevCall, gcRequested,
                   handleTrace>>
    /\ UNCHANGED gossipVars

\* the loop is over: database.RunGarbageCollection(); return nil
RunGarbageCollection ==
    /\ pc = "loop"
    /\ milestoneIndex > targetIndex
    /\ gcRequested' = TRUE
    /\ Return("ok")
    /\ UNCHANGED <<snapshotInfo, solidEntryPoints, storeVars, abortSignal, targetIndex,
                   milestoneIndex, prevCall, pruningEvents, handleTrace>>
    /\ UNCHANGED gossipVars

(***************************************************************************)
(* The stores the pruning engine is started on.                            *)
(***************************************************************************)
\* the SnapshotInfo records pruning starts from
Scenarios == {SnapshotInfo(100, 50, 50), SnapshotInfo(912, 759, 759),
              SnapshotInfo(1000, 800, 800), SnapshotInfo(1010, 800, 800)}
\* the targets pruneDatabase is called with
Targets == {200, 801, 810, 851, 902, 2000}
\* the milestones that are not stored
MissingMilestones == {{}, {803}}
\* the confirmed messages next to the milestone message exist for these
\* indexes above the pruning index, the unconfirmed ones for those
SideOffsets == {0, 1, 2, 5, 51, 109, 110}
UnconfirmedOffsets == {0, 1, 3, 5}

InitialMessages(info) ==
    {MilestoneMessageID(i) : i \in (info.PruningIndex + 1)..info.SnapshotIndex}
    \cup {10 * (info.PruningIndex + o) + 1 : o \in SideOffsets}
    \cup {10 * (info.PruningIndex + o) + k : o \in UnconfirmedOffsets, k \in {2, 3, 5, 6}}

\* the gossip Service while the pruning engine is examined
GossipQuiet ==
    /\ GossipInit
    /\ relation = [p \in ManagedPeers |-> PeerRelationUnknown]

PruneInit ==
    /\ GossipQuiet
    /\ \E info \in Scenarios \cup {NoSnapshotInfo}, missing \in MissingMilestones :
        /\ info.stored \/ missing = {}
        /\ snapshotInfo = info
        /\ messages = IF info.stored THEN InitialMessages(info) ELSE {}
        /\ children = IF info.stored
                      THEN {<<GetParent1MessageID(m), m>> : m \in InitialMessages(info)}
                           \cup {<<GetParent2MessageID(m), m>> : m \in InitialMessages(info)}
                      ELSE {}
        /\ unconfirmed = IF info.stored
                         THEN {<<info.PruningIndex + o, 10 * (info.PruningIndex + o) + k>> :
                                   o \in UnconfirmedOffsets, k \in 1..6}
                         ELSE {}
        /\ milestones = IF info.stored
                        THEN ((info.PruningIndex + 1)..info.SnapshotIndex) \ missing
                        ELSE {}
        /\ ledgerDiffs = IF info.stored THEN (info.PruningIndex + 1)..info.SnapshotIndex ELSE {}
        /\ solidEntryPoints = IF info.stored
                              THEN {<<MilestoneMessageID(info.EntryPointIndex), info.EntryPointIndex>>}
                              ELSE {}
    /\ isPruning = FALSE
    /\ abortSignal = FALSE
    /\ pc = "idle"
    /\ targetIndex = 0
    /\ milestoneIndex = 0
    /\ call = NoCall
    /\ prevCall = NoPrevCall
    /\ pruningEvents = <<>>
    /\ gcRequested = FALSE
    /\ handleTrace = <<>>

PruneNext ==
    \/ \E t \in Targets : PruneDatabase(t)
    \/ Abort
    \/ Restart
    \/ StoreSolidEntryPoints
    \/ SetEntryPointIndex
    \/ PruneUnconfirmedOfPruningIndex
    \/ \E traverseOk, ledgerOk \in BOOLEAN : PruneMilestoneIteration(traverseOk, ledgerOk)
    \/ SetPruningIndex
    \/ TriggerPruningMilestoneIndexChanged
    \/ RunGarbageCollection

PruneSpec == PruneInit /\ [][PruneNext]_<<gossipVars, pruneVars>>

(***************************************************************************)
(* Properties of the pruning engine.                                       *)
(***************************************************************************)
\* a pruneDatabase call has returned (and not panicked)
Returned == pc = "idle" /\ call.result \notin {"none", "panic"}

\* C7: PruningIndex <= EntryPointIndex <= SnapshotIndex holds of the stored
\* SnapshotInfo after every call, whatever its target and outcome (and at
\* every point in between).
C7_IndexOrder ==
    snapshotInfo.stored =>
        /\ snapshotInfo.PruningIndex <= snapshotInfo.EntryPointIndex
        /\ snapshotInfo.EntryPointIndex <= snapshotInfo.SnapshotIndex

\* a call pruned up to its clamped target after an earlier call was aborted
C7_Witness ==
    /\ Returned
    /\ call.result = "ok"
    /\ prevCall.result = ErrPruningAborted
    /\ call.target > snapshotInfo.SnapshotIndex
    /\ snapshotInfo.PruningIndex = snapshotInfo.EntryPointIndex
    /\ snapshotInfo.PruningIndex > call.before.EntryPointIndex

\* the call before the current one was aborted after it had persisted
\* EntryPointIndex = T, with T its clamped target
AbortedAfterEntryPoints ==
    /\ prevCall.result = ErrPruningAborted
    /\ call.before.EntryPointIndex = prevCall.targetIndex
    /\ call.before.PruningIndex < prevCall.targetIndex

\* C8 as claimed: the call that follows with the same target T gets past the
\* guards, iterates the milestones PruningIndex+1 .. T and ends with
\* PruningIndex = T.
C8_ResumeWithSameTarget ==
    ( /\ Returned
      /\ AbortedAfterEntryPoints
      /\ targetIndex = prevCall.targetIndex
      /\ call.result # ErrPruningAborted )
    => /\ call.result = "ok"
       /\ call.iterated = (call.before.PruningIndex + 1)..targetIndex
       /\ snapshotInfo.PruningIndex = targetIndex

\* C8 amended: after such an abort a call with the same target T returns
\* NotEnoughHistory and changes nothing; a call gets past the guards only
\* with a clamped target of at least T + AdditionalPruningThreshold + 1, and
\* then starts at the remembered PruningIndex+1, deletes the milestone and
\* (unless that deletion fails) the ledger diff of every milestone it does
\* not skip and, returning success with the target milestone not skipped,
\* ends with PruningIndex = target.
C8_ResumeNeedsHigherTarget ==
    (Returned /\ AbortedAfterEntryPoints)
    => /\ targetIndex = prevCall.targetIndex =>
            /\ call.result = ErrNotEnoughHistory
            /\ snapshotInfo = call.before
            /\ call.iterated = {}
       /\ call.result \in {"ok", ErrPruningAborted} <=>
            targetIndex >= prevCall.targetIndex + AdditionalPruningThreshold + 1
       /\ call.result = "ok" =>
            /\ call.iterated = (call.before.PruningIndex + 1)..targetIndex
            /\ \A i \in call.iterated \ call.skipped :
                    /\ i \notin milestones
                    /\ i \notin call.ledgerFailed => i \notin ledgerDiffs
            /\ targetIndex \notin call.skipped => snapshotInfo.PruningIndex = targetIndex

\* a call resumed from the PruningIndex the aborted call had reached
C8_Witness ==
    /\ Returned
    /\ AbortedAfterEntryPoints
    /\ call.before.PruningIndex = 803
    /\ call.before.EntryPointIndex = 851
    /\ call.result = "ok"
    /\ snapshotInfo.PruningIndex = targetIndex

\* the mathematical value of SnapshotIndex minus the thresholds minus one
EnoughSnapshotHistory(info) ==
    info.SnapshotIndex >= SolidEntryPointCheckThresholdPast + AdditionalPruningThreshold + 1

\* the last iteration of the call completed for the target milestone
TargetMilestonePruned ==
    /\ snapshotInfo.PruningIndex = targetIndex
    /\ Len(pruningEvents) > 0
    /\ pruningEvents[Len(pruningEvents)] = targetIndex
    /\ targetIndex \notin milestones
    /\ MilestoneMessageID(targetIndex) \in call.cone
    /\ call.cone \cap messages = {}
    /\ \A e \in children : e[1] \notin call.cone /\ e[2] \notin call.cone

ClampedTarget(info, target) ==
    LET max == info.SnapshotIndex - SolidEntryPointCheckThresholdPast
                   - AdditionalPruningThreshold - 1
    IN IF target > max THEN max ELSE target

\* C10 as claimed: whenever the clamped target is not above PruningIndex the
\* call returns NoPruningNeeded.
C10_NoPruningNeeded ==
    (Returned /\ ClampedTarget(call.before, call.target) <= call.before.PruningIndex)
    => call.result = ErrNoPruningNeeded

\* C10 amended: that holds when SnapshotIndex is at least
\* SolidEntryPointCheckThresholdPast + AdditionalPruningThreshold + 1; below
\* that the call returns NotEnoughHistory before it clamps (the result for
\* Snapshot=100, Pruning=50, EntryPoint=50, threshold 50, target 200).
C10_NoPruningNeededWithHistory ==
    Returned =>
        /\ ~EnoughSnapshotHistory(call.before) => call.result = ErrNotEnoughHistory
        /\ ( /\ EnoughSnapshotHistory(call.before)
             /\ ClampedTarget(call.before, call.target) <= call.before.PruningIndex )
           => call.result = ErrNoPruningNeeded

C10_Witness ==
    /\ Returned
    /\ call.before = SnapshotInfo(100, 50, 50)
    /\ call.target = 200
    /\ call.result = ErrNotEnoughHistory

\* the milestones whose iteration the call completed
Pruned == call.iterated \ call.skipped

\* C11 as claimed: a milestone that is missing or whose cone traversal fails
\* is skipped, and PruningIndex is below it when the call returns.
C11_SkippedMilestoneRetried ==
    Returned =>
        \A m \in call.failed :
            /\ m \in call.skipped
            /\ snapshotInfo.PruningIndex < m

\* C11 amended: such a milestone is skipped: its iteration deletes neither
\* the milestone nor its ledger diff, does not set PruningIndex to it and
\* emits no PruningMilestoneIndexChanged for it. PruningIndex is below it
\* when the call returns only if the call completed no later milestone;
\* otherwise PruningIndex is the last completed milestone, above it, and the
\* next call starts past it.
C11_SkippedMilestoneNotRetriedAfterProgress ==
    Returned =>
        \A m \in call.failed :
            /\ m \in call.skipped
            /\ m \in ledgerDiffs
            /\ \A k \in 1..Len(pruningEvents) : pruningEvents[k] # m
            /\ snapshotInfo.PruningIndex # m
            /\ snapshotInfo.PruningIndex < m <=> \A i \in Pruned : i < m
            /\ \A i \in Pruned : i <= snapshotInfo.PruningIndex
            /\ FirstMilestone(snapshotInfo) > m <=> \E i \in Pruned : i > m

\* a call skipped a milestone whose traversal failed, went on and succeeded
C11_Witness ==
    /\ Returned
    /\ call.result = "ok"
    /\ 805 \in call.failed
    /\ 805 \in milestones
    /\ snapshotInfo.PruningIndex = targetIndex
    /\ FirstMilestone(snapshotInfo) > 805

\* the step from the current state to the next is what
\* pruneUnconfirmedTransactions(i) is claimed to do
UnconfirmedPruned(i) ==
    LET listed == {u[2] : u \in {v \in unconfirmed : v[1] = i}} IN
    /\ \A m \in listed \cap messages :
          m \in messages' <=> (IsConfirmed(m) \/ HasMilestoneBundle(m))
    /\ messages' \subseteq messages
    /\ messages \ messages' \subseteq listed
    /\ unconfirmed' = {u \in unconfirmed : u[1] # i}

\* C12: pruneUnconfirmedTransactions(i) keeps the listed messages that are
\* confirmed or belong to a milestone bundle, deletes every other listed
\* message that is still stored and nothing else, and deletes the
\* unconfirmed-index entries of i. (The calls checked are the one for the
\* old PruningIndex and those of the iterations that stop right after it.)
C12_UnconfirmedPruningSparesMilestones ==
    [][ /\ pc = "pruneUnconfirmed" => UnconfirmedPruned(snapshotInfo.PruningIndex)
        /\ (pc = "loop" /\ milestoneIndex \in call'.skipped) => UnconfirmedPruned(milestoneIndex)
      ]_pruneVars

\* the call for the old PruningIndex kept a confirmed and a milestone-bundle
\* message of the list and deleted the two others that were stored
C12_Witness ==
    LET i == call.before.PruningIndex IN
    /\ pc = "loop"
    /\ milestoneIndex = FirstMilestone(call.before)
    /\ 10 * i + 1 \in messages
    /\ 10 * i + 3 \in messages
    /\ 10 * i + 2 \notin messages
    /\ 10 * i + 5 \notin messages
    /\ \A u \in unconfirmed : u[1] # i

\* a pruneDatabase call is between setIsPruning(true) and its return
Running == pc \notin {"idle", "panicked"}

\* C13: isPruning is false whenever pruneDatabase has returned (or has not
\* been called), whatever the exit path, and true while the call is
\* computing and rewriting the entry points or deleting data.
C13_IsPruningWhileRunning ==
    isPruning <=> Running

\* a call that had deleted data returned on the abort path
C13_Witness ==
    /\ Returned
    /\ ~isPruning
    /\ call.result = ErrPruningAborted
    /\ Pruned # {}

\* the SnapshotInfo the store was started with (SnapshotIndex is never
\* written and tells the stores apart)
StartInfo == CHOOSE info \in Scenarios : info.SnapshotIndex = snapshotInfo.SnapshotIndex

\* the milestone indexes of which something has been deleted: a message, an
\* unconfirmed-index entry, the milestone or the ledger diff
DeletedIndexes ==
    {IndexOf(m) : m \in InitialMessages(StartInfo) \ messages}
    \cup {StartInfo.PruningIndex + o : o \in {x \in UnconfirmedOffsets :
              \A u \in unconfirmed : u[1] # StartInfo.PruningIndex + x}}
    \cup {i \in (StartInfo.PruningIndex + 1)..StartInfo.SnapshotIndex :
              \/ i \notin ledgerDiffs
              \/ i \notin milestones /\ i \notin UNION MissingMilestones}

\* C14: in every reachable state, so wherever a call is interrupted, data
\* of a milestone is deleted only when the persisted EntryPointIndex is at
\* least that milestone and entry points of at least that index are stored.
C14_EntryPointsBeforeDeletion ==
    snapshotInfo.stored =>
        \A i \in DeletedIndexes :
            /\ i <= snapshotInfo.EntryPointIndex
            /\ \E e \in solidEntryPoints : e[2] >= i

\* the call is between the deletion of a milestone's data and the write of
\* PruningIndex, the entry points of the target being stored
C14_Witness ==
    /\ pc = "setPruningIndex"
    /\ milestoneIndex \in DeletedIndexes
    /\ snapshotInfo.PruningIndex < milestoneIndex
    /\ snapshotInfo.EntryPointIndex = targetIndex
    /\ <<MilestoneMessageID(targetIndex), targetIndex>> \in solidEntryPoints

SetMax(S) == CHOOSE x \in S : \A y \in S : y <= x

\* the call returned PruningAborted from the top of the iteration of
\* milestoneIndex
AbortedInLoop ==
    /\ Returned
    /\ call.result = ErrPruningAborted
    /\ milestoneIndex # 0

\* C15: a call that finds the abort signal fired at the start of an
\* iteration returns PruningAborted having deleted nothing of that or any
\* later milestone; PruningIndex is the last milestone whose iteration
\* completed (the one it had before if none did) and EntryPointIndex is the
\* target.
C15_AbortKeepsCompletedIterations ==
    AbortedInLoop =>
        /\ snapshotInfo.EntryPointIndex = targetIndex
        /\ snapshotInfo.PruningIndex =
              IF Pruned = {} THEN call.before.PruningIndex ELSE SetMax(Pruned)
        /\ snapshotInfo.PruningIndex < milestoneIndex
        /\ call.iterated = (call.before.PruningIndex + 1)..(milestoneIndex - 1)
        /\ \A i \in DeletedIndexes : i < milestoneIndex
        /\ ~gcRequested

\* target 810 aborted after 803 completes
C15_Witness ==
    /\ AbortedInLoop
    /\ call.target = 810
    /\ milestoneIndex = 804
    /\ 803 \in Pruned
    /\ snapshotInfo.PruningIndex = 803
    /\ snapshotInfo.EntryPointIndex = 810

\* the handles a trace is about
HandlesOf(trace) == {<<trace[i].kind, trace[i].id>> : i \in 1..Len(trace)}

\* how often the first n steps of the trace did op on handle h
Count(trace, n, op, h) ==
    Cardinality({i \in 1..n : trace[i] = [op |-> op, kind |-> h[1], id |-> h[2]]})

\* C19: when a step of the pruning engine (pruneUnconfirmedTransactions, a
\* loop iteration of pruneDatabase with its pruneMessages) is over, every
\* handle it acquired has been released as often as it was acquired, and
\* no handle was ever released more often than it had been acquired; this
\* on the skip, error and abort paths as well.
C19_HandlesReleasedExactlyOnce ==
    \A h \in HandlesOf(handleTrace) :
        /\ Count(handleTrace, Len(handleTrace), "release", h)
               = Count(handleTrace, Len(handleTrace), "acquire", h)
        /\ \A n \in 1..Len(handleTrace) :
               Count(handleTrace, n, "release", h) <= Count(handleTrace, n, "acquire", h)

\* an iteration whose traversal failed went through message, bundles and
\* milestone handles, among them those of a confirmed message, of a message
\* of a milestone bundle and of one without bundles
C19_Witness ==
    /\ pc = "loop"
    /\ milestoneIndex - 1 \in call.failed
    /\ \A k \in {"msg", "bundles", "milestone"} :
           \E h \in HandlesOf(handleTrace) : h[1] = k
    /\ \A k \in {1, 3, 5, 6} :
           \E h \in HandlesOf(handleTrace) : h[1] = "msg" /\ Kind(h[2]) = k

\* the milestone indexes the calls so far have gone past
PassedIndexes ==
    IF snapshotInfo.stored THEN (StartInfo.PruningIndex + 1)..snapshotInfo.PruningIndex ELSE {}

\* C23 as stated: every milestone index up to the persisted PruningIndex
\* has had its milestone message, its milestone and its ledger diff deleted
C23_AllBelowPruningIndexDeleted ==
    \A i \in PassedIndexes :
        /\ MilestoneMessageID(i) \notin messages
        /\ i \notin milestones
        /\ i \notin ledgerDiffs

\* C23: of the milestone indexes up to the persisted PruningIndex, those
\* whose iteration completed have had their milestone message and their
\* milestone deleted, and their ledger diff unless its deletion failed; a
\* milestone that was skipped, because it was missing or its traversal
\* failed, keeps its ledger diff, and its milestone if it was stored,
\* although PruningIndex has gone past it.
C23_CompletedBelowPruningIndexDeleted ==
    \A i \in PassedIndexes :
        \* whichever call went past i
        /\ i \in milestones => i \in TraversalFaults /\ i \in ledgerDiffs
        /\ (i \notin milestones /\ i \notin UNION MissingMilestones) =>
              /\ MilestoneMessageID(i) \notin messages
              /\ i \in ledgerDiffs => i \in LedgerDiffFaults
        \* the current or last call went past i
        /\ i \in Pruned =>
              /\ MilestoneMessageID(i) \notin messages
              /\ i \notin milestones
              /\ i \in ledgerDiffs <=> i \in call.ledgerFailed
        /\ i \in call.skipped =>
              /\ i \in call.failed
              /\ i \in ledgerDiffs
              /\ i \in milestones <=> i \notin UNION MissingMilestones

\* a call has returned with PruningIndex past a milestone whose traversal
\* failed, past one whose ledger diff could not be deleted and past
\* completed ones
C23_Witness ==
    /\ Returned
    /\ call.result = "ok"
    /\ snapshotInfo.PruningIndex = 851
    /\ 805 \in milestones
    /\ 802 \in ledgerDiffs /\ 802 \notin milestones
    /\ 804 \notin ledgerDiffs /\ 804 \notin milestones /\ MilestoneMessageID(804) \notin messages

\* the milestone whose iteration has deleted its data and has not yet
\* triggered its event
InIteration == IF pc \in {"setPruningIndex", "trigger"} THEN {milestoneIndex} ELSE {}

\* the events of the call are those of its completed iterations, once each
\* and in increasing order
EventsOfCompletedIterations ==
    /\ \A k \in 1..(Len(pruningEvents) - 1) : pruningEvents[k] < pruningEvents[k + 1]
    /\ {pruningEvents[k] : k \in 1..Len(pruningEvents)} = Pruned \ InIteration
    /\ \A k \in 1..Len(pruningEvents) : pruningEvents[k] <= snapshotInfo.PruningIndex

\* an event is triggered for the milestone that PruningIndex has just been
\* persisted as
EventAfterPersist ==
    pruningEvents' # pruningEvents /\ pruningEvents' # <<>> =>
        /\ pruningEvents' = Append(pruningEvents, milestoneIndex)
        /\ snapshotInfo.PruningIndex = milestoneIndex
        /\ snapshotInfo' = snapshotInfo
        /\ milestoneIndex \in Pruned

\* C24: during one pruneDatabase call PruningMilestoneIndexChanged(m) is
\* triggered exactly once for each milestone m whose iteration completed
\* and for no other index, in strictly increasing order of m, and each
\* trigger comes after PruningIndex = m has been persisted.
C24_EventPerCompletedMilestone ==
    [][EventAfterPersist /\ EventsOfCompletedIterations']_pruneVars

\* a call that skipped a milestone and completed the ones around it has
\* returned
C24_Witness ==
    /\ Returned
    /\ call.result = "ok"
    /\ 805 \in call.skipped
    /\ \E k \in 1..(Len(pruningEvents) - 1) :
           pruningEvents[k] = 804 /\ pruningEvents[k + 1] = 806
    /\ pruningEvents[Len(pruningEvents)] = targetIndex

\* the step is a pruneDatabase call that returns from one of its guards
ReturnsFromGuard ==
    /\ pc = "idle"
    /\ pc' = "idle"
    /\ call'.result \in {ErrNotEnoughHistory, ErrNoPruningNeeded}
    /\ UNCHANGED abortSignal

\* C25: a pruneDatabase call that returns NotEnoughHistory or
\* NoPruningNeeded from its guards has changed nothing: SnapshotInfo, the
\* solid entry points, the messages, children, unconfirmed entries,
\* milestones and ledger diffs are as before, isPruning was not set, no
\* event was triggered and no garbage collection was requested.
C25_GuardReturnChangesNothing ==
    [][ReturnsFromGuard =>
           /\ UNCHANGED <<snapshotInfo, solidEntryPoints, storeVars>>
           /\ call'.before = snapshotInfo
           /\ ~isPruning /\ ~isPruning'
           /\ pruningEvents' = <<>>
           /\ ~gcRequested'
           /\ handleTrace' = <<>>
       ]_pruneVars

\* a call returned NoPruningNeeded after an earlier call had pruned up to
\* its target, and the store is as that call left it
C25_Witness ==
    /\ Returned
    /\ call.result = ErrNoPruningNeeded
    /\ prevCall.result = "ok"
    /\ snapshotInfo.PruningIndex = prevCall.targetIndex
    /\ snapshotInfo = call.before
    /\ ~isPruning
    /\ pruningEvents = <<>>
    /\ ~gcRequested

(***************************************************************************)
(* Properties of the event loop around shutdown.                           *)
(***************************************************************************)
\* what an iteration that handles an event writes
handledVars == <<streams, protos, net, startedCnt, terminatedCnt, createdBy, last>>

\* C16 as claimed: once the shutdown signal has fired the loop handles no
\* further event.
C16_NoEventAfterShutdownSignal ==
    [][shutdownSignal => UNCHANGED handledVars]_gossipVars

\* C16 amended: the loop returns only in an iteration that finds the
\* shutdown signal fired, that iteration handles no event, and no event is
\* handled once the loop has returned; between the signal and the return
\* an iteration that finds another channel ready as well may handle that
\* event.
C16_NoEventAfterLoopReturned ==
    [][ /\ (running /\ ~running') => (shutdownSignal /\ UNCHANGED handledVars)
        /\ ~running => (~running' /\ UNCHANGED handledVars)
      ]_gossipVars

\* the loop has returned on the shutdown signal after it had handled events
C16_Witness ==
    /\ ~running
    /\ shutdownSignal
    /\ last.chan = "inboundStream"
    /\ last.events # <<>>

\* C17: after the loop has returned nothing is received or answered any
\* more: a caller blocked in Protocol or ClosedStream stays blocked, the manager's RelationUpdated closure stays blocked in its send,
\* and no handler runs for any channel.
C17_SendersBlockForever ==
    [][ ~running =>
          /\ ~running'
          /\ blockedCallers \subseteq blockedCallers'
          /\ relationUpdatedChan # <<>> => relationUpdatedChan' = relationUpdatedChan
          /\ last' = last
      ]_gossipVars

\* every followed caller and the manager are blocked after the return
C17_Witness ==
    /\ ~running
    /\ blockedCallers = Callers
    /\ relationUpdatedChan # <<>>

\* C18: when host.NewStream fails in the connected or relationUpdated case,
\* the iteration triggers Error with the error and nothing else, the peer
\* has no session, and from that state a connected (outbound) event, or a
\* relationUpdated event while the relation is not unknown, whose
\* stream opens registers a session.
C18_OpenFailureLeavesNoSession ==
    last.io = "open failed" =>
        /\ last.chan \in {"connected", "relationUpdated"}
        /\ last.events = <<EvError("unable to create gossip stream")>>
        /\ ~HasEventType(last.events, "ProtocolStarted")
        /\ last.before = NoProto
        /\ streams[last.peer] = NoProto
        /\ handleConnected(ServiceState, last.peer, DirOutbound, TRUE).proto # NoProto
        /\ relation[last.peer] # PeerRelationUnknown =>
              handleRelationUpdated(ServiceState, last.peer, "", TRUE, TRUE).proto # NoProto

\* the stream could not be opened after the relation of a peer that had a
\* session before was updated
C18_Witness ==
    /\ last.io = "open failed"
    /\ last.chan = "relationUpdated"
    /\ Len(protos) > 0
    /\ Len(net) < MaxStreams

(***************************************************************************)
(* Properties of the streamClosed case.                                    *)
(***************************************************************************)
\* C20: a streamClosed(peerID, stream) event whose stream is not the one
\* the peer's session owns leaves streams[peerID] as it was and triggers no
\* ProtocolTerminated.
C20_StreamClosedOnlyOwnStream ==
    ( /\ last.chan = "streamClosed"
      /\ last.before # NoProto
      /\ protos[last.before].Stream # last.stream )
    => /\ streams[last.peer] = last.before
       /\ ~HasEventType(last.events, "ProtocolTerminated")

(***************************************************************************)
(* Properties of the order in which the loop handles events.               *)
(***************************************************************************)
\* the offers the loop has received
Handled(ofs) == {i \in 1..Len(ofs) : ofs[i].handled}

\* C21 as stated: an event offered before an event of another channel is
\* handled before it
C21_ArrivalOrderAcrossChannels ==
    \A i, j \in 1..Len(offers) :
        (i < j /\ offers[i].chan # offers[j].chan /\ offers[j].handled) => offers[i].handled

\* C21: the loop handles the offered events one at a time, in the order its
\* select receives them: a step receives at most one offer, the event it
\* handles is the event of that offer, and every other offer, older ones on
\* other channels included, stays as it was, pending until a later
\* iteration receives it.
C21_OneOfferPerIteration ==
    [][ /\ Len(offers') >= Len(offers)
        /\ Handled(offers) \subseteq Handled(offers')
        /\ Cardinality(Handled(offers') \ Handled(offers)) <= 1
        /\ \A i \in 1..Len(offers) :
               /\ offers'[i].chan = offers[i].chan
               /\ offers'[i].peer = offers[i].peer
               /\ i \in Handled(offers') \ Handled(offers) =>
                      /\ last'.chan = offers[i].chan
                      /\ last'.peer = offers[i].peer
      ]_gossipVars

\* an event was offered on one channel and later one on another: the loop
\* has handled the later one and the older one is still pending, next to a
\* second offer of the same event as the one handled
C21_Witness ==
    /\ Len(offers) = 3
    /\ offers[2].chan # offers[1].chan
    /\ offers[3] = [offers[2] EXCEPT !.handled = FALSE]
    /\ offers[2].handled
    /\ ~offers[1].handled
    /\ last.chan = offers[2].chan

(***************************************************************************)
(* Properties of callbacks that call back into the Service.                *)
(***************************************************************************)
\* C22: once an event handler or a ProtocolForEachFunc running in the loop
\* has called Service.Protocol or Service.ForEach, the call never returns
\* and the loop handles no further event; it does not return on the
\* shutdown signal either.
C22_CallbackDeadlocksLoop ==
    [][loopBlocked # "" => UNCHANGED <<handledVars, loopBlocked, running, blockedCallers>>]_gossipVars

\* the handler of InboundStreamCancelled called Service.ForEach: the
\* unwanted stream is never closed, and the shutdown signal has fired with
\* the loop still there
C22_Witness ==
    /\ loopBlocked = "ForEach"
    /\ last.chan = "inboundStream"
    /\ HasEventType(last.events, "InboundStreamCancelled")
    /\ ~net[last.stream].reset
    /\ shutdownSignal
    /\ running
====
